---------------------------- MODULE Spec2Model ----------------------------
(***************************************************************************)
(* The idle-tracking and alert-dispatch loop of alarm.py (main and its     *)
(* helpers), as a state machine.                                           *)
(*                                                                         *)
(* Time is counted in half-seconds, so that round() has both exact values  *)
(* and ties to decide.  Only differences of time.time() readings are ever  *)
(* used by the program, so the wall clock is kept relative to the          *)
(* recorded last_check_time: since_check = time.time() - last_check_time.  *)
(*                                                                         *)
(* rates, real_interval and idle_gpus are assigned in every iteration of   *)
(* the loop before they are read.  They are emptied where an iteration     *)
(* ends, so that states differing only in such dead values are one state.  *)
(***************************************************************************)
EXTENDS Integers, Sequences, FiniteSets

(* ----------------------------- input sets ------------------------------ *)

\* largest device count the driver reports
MaxCount == 2

\* number of polls the 10-second scenario of the specification is followed for
ScenPolls == 7

\* number of polls after a seeding the sum of round(elapsed) is followed for
SumPolls == 1

\* --interval (seconds), --duration (minutes), --threshold (percent)
Intervals == {10}
Durations == {0, 1}
Thresholds == {20}

\* --devices: 'auto' (None) or a sorted list of indexes
DeviceOptions == {[auto |-> TRUE, ids |-> <<>>], [auto |-> FALSE, ids |-> <<1>>],
                  [auto |-> FALSE, ids |-> <<0, 1>>]}

\* what the driver reports for a device
Names == {"A", "B"}
Utils == {5, 20}

\* extra half-seconds a sleep plus the sampling takes beyond the interval
Jitter == {0, 1}

\* half-seconds by which the wall clock is set between two readings
ClockSteps == {0, -40}

\* half-seconds the connection test at startup takes
StartupDelays == {0, 20}

\* outcome of the NVML calls of one sample: fine, an NVMLError after a
\* successful nvmlInit, or an NVMLError of nvmlInit itself
NvmlOutcomes == {"ok", "error", "init_error"}

\* outcome of a call into smtplib
SmtpOutcomes == {"ok", "fail"}

Messages == {"", "Test connection...", "Connected", "NVMLError",
             "No NVIDIA GPUs detected.",
             "device line", "Device changes detected - timers reset.",
             "Found idle GPUs", "Sending alarm email...", "Email sent"}

VARIABLES
    \* options
    interval, duration, threshold, devices, quiet_mode,
    \* main's locals
    pc, rates, rates_none, since_check, real_interval,
    idle_durations, device_names, idle_gpus,
    \* the outside world
    console,        \* last line print() received
    mail,           \* lines of the message sendmail received in this cycle
    sent,           \* number of sendmail calls in this cycle
    failure,        \* the exception that ended the process, if any
    \* history
    cycle,          \* how the last finished cycle ended: seed, reset or accumulate
    window,         \* per position: sum of round(elapsed) since seeding or its last alert
    always_idle,    \* per position: below the threshold at every poll since seeding
    scen,           \* polls of the 10-second scenario followed so far, -1 once left
    idle_since_zero,\* per position: below the threshold at every poll since its
                    \* timer was last assigned 0
    seed_sum        \* polls accumulated since the last seeding and the sum of
                    \* their round(elapsed); polls is -1 once no longer followed

vars == <<interval, duration, threshold, devices, quiet_mode, pc, rates,
          rates_none, since_check, real_interval, idle_durations, device_names,
          idle_gpus, console, mail, sent, failure, cycle, window, always_idle,
          scen, idle_since_zero, seed_sum>>

options == <<interval, duration, threshold, devices, quiet_mode>>

\* what the transport has seen in this cycle
transport == <<mail, sent>>

\* the history of the positions
history == <<window, always_idle, scen, idle_since_zero, seed_sum>>

(* ------------------------------ helpers -------------------------------- *)

\* verbose(): print unless quiet; con is what the console showed before
verbose(q, con, msg) == IF q THEN con ELSE msg

\* Python's round() of a float given in half-seconds: ties go to the even integer
Round(t) ==
    LET fl == t \div 2
    IN  IF t % 2 = 0 THEN fl
        ELSE IF fl % 2 = 0 THEN fl ELSE fl + 1

Range(count) == [k \in 1..count |-> k - 1]

\* get_utilization_rates() when no NVML call fails: nm and ut give the name
\* and utilization of the device at each driver index
get_utilization_rates(devs, count, nm, ut) ==
    LET ds == IF devs.auto THEN Range(count) ELSE devs.ids
        Present(i) == i < count
        kept == SelectSeq(ds, Present)
    IN  [k \in 1..Len(kept) |->
            [index |-> kept[k], name |-> nm[kept[k]], util |-> ut[kept[k]]]]

\* reset_history sizing the timers by the names recorded before
ZerosStale(info_seq) == [k \in 1..Len(device_names) |-> 0]

Zeros(info_seq) == [k \in 1..Len(info_seq) |-> 0]

NamesOf(info_seq) == [k \in 1..Len(info_seq) |-> info_seq[k].name]

\* print_summary(): the console after it
print_summary(q, con, info_seq) ==
    IF Len(info_seq) = 0
    THEN verbose(q, con, "No NVIDIA GPUs detected.")
    ELSE verbose(q, con, "device line")

Min(a, b) == IF a < b THEN a ELSE b

\* the check comparing the lengths only
device_changed_len(names, rts) == Len(rts) # Len(names)

\* the check comparing the device indexes with the positions as well
device_changed_index(names, rts) ==
    \/ Len(rts) # Len(names)
    \/ \E k \in 1..Min(Len(names), Len(rts)) :
            names[k] # rts[k].name \/ rts[k].index # k - 1

device_changed(names, rts) ==
    \/ Len(rts) # Len(names)
    \/ \E k \in 1..Min(Len(names), Len(rts)) : names[k] # rts[k].name

\* the loop with the threshold itself counted as idle
update_timers_strict(idle, rts, thr, elapsed) ==
    [i \in 1..Len(idle) |->
        IF i <= Len(rts)
        THEN IF rts[i].util > thr THEN 0 ELSE idle[i] + Round(elapsed)
        ELSE idle[i]]

\* the loop accumulating whatever the utilization is
update_timers_blind(idle, rts, thr, elapsed) ==
    [i \in 1..Len(idle) |->
        IF i <= Len(rts) THEN idle[i] + Round(elapsed) ELSE idle[i]]

\* the "update timers" loop
update_timers(idle, rts, thr, elapsed) ==
    [i \in 1..Len(idle) |->
        IF i <= Len(rts)
        THEN IF rts[i].util >= thr THEN 0 ELSE idle[i] + Round(elapsed)
        ELSE idle[i]]

\* the check with a strict comparison
check_durations_strict(idle, dur) ==
    LET Qualifies(k) == idle[k] > dur * 60
    IN  SelectSeq([k \in 1..Len(idle) |-> k], Qualifies)

\* the check without the second-minute conversion
check_durations_minutes(idle, dur) ==
    LET Qualifies(k) == idle[k] >= dur
    IN  SelectSeq([k \in 1..Len(idle) |-> k], Qualifies)

\* idle_gpus of "check durations": positions in increasing order
check_durations(idle, dur) ==
    LET Qualifies(k) == idle[k] >= dur * 60
    IN  SelectSeq([k \in 1..Len(idle) |-> k], Qualifies)

\* the reset loop left out
reset_idle_skipped(idle, gpus) == idle

\* every timer reset once a position is found
reset_idle_all(idle, gpus) == [i \in 1..Len(idle) |-> 0]

\* the reset loop over idle_gpus
reset_idle(idle, gpus) ==
    [i \in 1..Len(idle) |->
        IF \E k \in 1..Len(gpus) : gpus[k] = i THEN 0 ELSE idle[i]]

\* the body built from idle_gpus[1:]
mail_lines_tail(gpus, rts, names) ==
    [k \in 1..(Len(gpus) - 1) |-> <<rts[gpus[k + 1]].index, names[gpus[k + 1]]>>]

\* the device lines of the mail body
mail_lines(gpus, rts, names) ==
    [k \in 1..Len(gpus) |-> <<rts[gpus[k]].index, names[gpus[k]]>>]

Elems(s) == {s[k] : k \in 1..Len(s)}


(* -------------------------------- Init --------------------------------- *)

Init ==
    /\ interval \in Intervals
    /\ duration \in Durations
    /\ threshold \in Thresholds
    /\ devices \in DeviceOptions
    /\ quiet_mode \in BOOLEAN
    /\ pc = "connect"
    /\ rates = <<>>
    /\ rates_none = FALSE
    /\ since_check = 0
    /\ real_interval = 0
    /\ idle_durations = <<>>
    /\ device_names = <<>>
    /\ idle_gpus = <<>>
    /\ console = ""
    /\ mail = <<>>
    /\ sent = 0
    /\ failure = "none"
    /\ cycle = "none"
    /\ window = <<>>
    /\ always_idle = <<>>
    /\ scen = -1
    /\ idle_since_zero = <<>>
    /\ seed_sum = [polls |-> 0, sum |-> 0]

(* ------------------------------- actions ------------------------------- *)
\* Each step of main takes the quiet flag q it prints under and the console
\* contents out it leaves behind.

\* what one call of get_utilization_rates can return as a list
SnapshotsFor(devs) ==
    UNION {{get_utilization_rates(devs, count, nm, ut) :
                nm \in [0..(count - 1) -> Names], ut \in [0..(count - 1) -> Utils]} :
           count \in 0..MaxCount}

\* the same, worked out once for every --devices option
Snapshots == [devs \in DeviceOptions |-> SnapshotsFor(devs)]

\* the 10-second scenario: interval 10 s, threshold 20 %, duration 1 minute
ScenarioOptions == interval = 10 /\ threshold = 20 /\ duration = 1

\* the end of an iteration: back to the sleep, the iteration's values dead
EndOfCycle(how) ==
    /\ pc' = "sleep"
    /\ cycle' = how
    /\ rates' = <<>>
    /\ real_interval' = 0
    /\ idle_gpus' = <<>>
    /\ mail' = <<>>
    /\ sent' = 0

\* an exception other than KeyboardInterrupt leaves main
Raise(exc) ==
    /\ pc' = "crashed"
    /\ failure' = exc

\* "connect to SMTP host": the connection test
ConnectQ(q, out) ==
    /\ pc = "connect"
    /\ \E smtp \in SmtpOutcomes :
        IF smtp = "ok"
        THEN /\ out = verbose(q, verbose(q, console, "Test connection..."), "Connected")
             /\ pc' = "first"
             /\ failure' = failure
        ELSE /\ out = verbose(q, console, "Test connection...")
             /\ Raise("smtp_test")
    /\ since_check' \in {since_check + d : d \in StartupDelays}
    /\ UNCHANGED <<options, rates, rates_none, real_interval, idle_durations,
                   device_names, idle_gpus, transport, cycle, history>>

\* "get the first information": sample, reset_history, print_summary
FirstSampleQ(q, out) ==
    /\ pc = "first"
    /\ \E nvml \in NvmlOutcomes :
        CASE nvml = "ok" ->
                \E snap \in Snapshots[devices] :
                    /\ idle_durations' = Zeros(snap)
                    /\ device_names' = NamesOf(snap)
                    /\ window' = Zeros(snap)
                    /\ always_idle' = [k \in 1..Len(snap) |-> TRUE]
                    /\ scen' = IF ScenarioOptions /\ Len(snap) = 1 THEN 0 ELSE -1
                    /\ idle_since_zero' = [k \in 1..Len(snap) |-> TRUE]
                    /\ seed_sum' = [polls |-> 0, sum |-> 0]
                    /\ out = print_summary(q, console, snap)
                    /\ EndOfCycle("seed")
                    /\ UNCHANGED <<rates_none, failure>>
          [] nvml = "error" ->
                \* None comes back and len(None) raises in reset_history
                /\ rates_none' = TRUE
                /\ out = verbose(q, console, "NVMLError")
                /\ Raise("TypeError")
                /\ UNCHANGED <<rates, real_interval, idle_durations, device_names,
                               idle_gpus, transport, cycle, history>>
          [] nvml = "init_error" ->
                \* nvmlShutdown raises in the finally clause
                /\ out = verbose(q, console, "NVMLError")
                /\ Raise("NVMLError")
                /\ UNCHANGED <<rates, rates_none, real_interval, idle_durations,
                               device_names, idle_gpus, transport, cycle, history>>
    /\ UNCHANGED <<options, since_check>>

\* what time.time() - last_check_time can read after the sleep and the sample;
\* the clock is only set back while no timer is negative, which keeps the
\* timers bounded below
ThisCheck ==
    {since_check + 2 * interval + j + c : j \in Jitter,
        c \in {x \in ClockSteps :
                 x < 0 => \A i \in 1..Len(idle_durations) : idle_durations[i] >= 0}}

\* "sleep for interval", "get utilization rates", "update time point",
\* "check devices"
PollQ(q, out) ==
    /\ pc = "sleep"
    /\ \E nvml \in NvmlOutcomes :
        CASE nvml = "ok" ->
                \/ \* device_changed: reset_history, print_summary, continue
                   /\ EndOfCycle("reset")
                   /\ since_check' = 0
                   /\ scen' = -1
                   /\ seed_sum' = [polls |-> 0, sum |-> 0]
                   /\ \E snap \in Snapshots[devices] :
                        /\ device_names' = NamesOf(snap)
                        /\ device_changed(device_names, snap)
                        /\ out = print_summary(q, verbose(q, console,
                                     "Device changes detected - timers reset."), snap)
                        /\ idle_durations' = Zeros(snap)
                        /\ window' = Zeros(snap)
                        /\ always_idle' = [k \in 1..Len(snap) |-> TRUE]
                        /\ idle_since_zero' = [k \in 1..Len(snap) |-> TRUE]
                   /\ UNCHANGED <<rates_none, failure>>
                \/ \* on to the timers
                   /\ pc' = "update_timers"
                   /\ out = console
                   /\ rates' \in Snapshots[devices]
                   /\ ~device_changed(device_names, rates')
                   /\ real_interval' \in ThisCheck
                   /\ since_check' = 0
                   /\ scen' = IF /\ scen >= 0
                                 /\ scen < ScenPolls
                                 /\ real_interval' = 2 * 10
                                 /\ rates'[1].util = 5
                              THEN scen + 1 ELSE -1
                   /\ UNCHANGED <<rates_none, idle_durations, device_names,
                                  idle_gpus, transport, failure, cycle,
                                  window, always_idle, idle_since_zero,
                                  seed_sum>>
          [] nvml = "error" ->
                \* None comes back, the time point is updated, len(None) raises
                /\ Raise("TypeError")
                /\ out = verbose(q, console, "NVMLError")
                /\ rates_none' = TRUE
                /\ real_interval' \in ThisCheck
                /\ since_check' = 0
                /\ UNCHANGED <<rates, idle_durations, device_names, idle_gpus,
                               transport, cycle, history>>
          [] nvml = "init_error" ->
                /\ Raise("NVMLError")
                /\ out = verbose(q, console, "NVMLError")
                /\ UNCHANGED <<rates, rates_none, real_interval, since_check,
                               idle_durations, device_names, idle_gpus, transport,
                               cycle, history>>
    /\ UNCHANGED options

\* "update timers" and the summary
UpdateTimersQ(q, out) ==
    /\ pc = "update_timers"
    /\ IF Len(rates) > Len(idle_durations)
       THEN \* IndexError
            /\ Raise("IndexError")
            /\ out = console
            /\ UNCHANGED <<idle_durations, window, always_idle,
                           idle_since_zero, seed_sum>>
       ELSE /\ idle_durations' = update_timers(idle_durations, rates, threshold,
                                               real_interval)
            /\ always_idle' = [i \in 1..Len(always_idle) |->
                                  always_idle[i] /\ rates[i].util < threshold]
            /\ window' = [i \in 1..Len(window) |->
                             IF always_idle[i] /\ rates[i].util < threshold
                             THEN window[i] + Round(real_interval) ELSE 0]
            /\ idle_since_zero' = [i \in 1..Len(idle_since_zero) |->
                                      IF rates[i].util >= threshold
                                      THEN idle_durations'[i] = 0
                                      ELSE idle_since_zero[i]]
            /\ seed_sum' = IF seed_sum.polls \in 0..(SumPolls - 1)
                           THEN [polls |-> seed_sum.polls + 1,
                                 sum |-> seed_sum.sum + Round(real_interval)]
                           ELSE [polls |-> -1, sum |-> 0]
            /\ out = print_summary(q, console, rates)
            /\ pc' = "check_durations"
            /\ failure' = failure
    /\ UNCHANGED <<options, rates, rates_none, since_check, real_interval,
                   device_names, idle_gpus, transport, cycle, scen>>

\* the step with the quiet flag silencing the alarm as well
CheckDurationsQuiet(q, out) ==
    /\ pc = "check_durations"
    /\ LET gpus == IF q THEN <<>> ELSE check_durations(idle_durations, duration)
       IN  IF Len(gpus) = 0
           THEN /\ out = console
                /\ EndOfCycle("accumulate")
                /\ UNCHANGED <<idle_durations, window, idle_since_zero>>
           ELSE /\ idle_gpus' = gpus
                /\ idle_durations' = reset_idle(idle_durations, gpus)
                /\ window' = reset_idle(window, gpus)
                /\ idle_since_zero' = [i \in 1..Len(idle_since_zero) |->
                                          \/ idle_durations'[i] = 0 /\ i \in Elems(gpus)
                                          \/ idle_since_zero[i]]
                /\ out = verbose(q, console, "Found idle GPUs")
                /\ pc' = "send_emails"
                /\ UNCHANGED <<rates, real_interval, transport, cycle>>
    /\ UNCHANGED <<options, rates_none, since_check, device_names, failure,
                   always_idle, scen, seed_sum>>

\* "check durations" and the reset of the timers found
CheckDurationsQ(q, out) ==
    /\ pc = "check_durations"
    /\ LET gpus == check_durations(idle_durations, duration)
       IN  IF Len(gpus) = 0
           THEN /\ out = console
                /\ EndOfCycle("accumulate")
                /\ UNCHANGED <<idle_durations, window, idle_since_zero>>
           ELSE /\ idle_gpus' = gpus
                /\ idle_durations' = reset_idle(idle_durations, gpus)
                /\ window' = reset_idle(window, gpus)
                /\ idle_since_zero' = [i \in 1..Len(idle_since_zero) |->
                                          \/ idle_durations'[i] = 0 /\ i \in Elems(gpus)
                                          \/ idle_since_zero[i]]
                /\ out = verbose(q, console, "Found idle GPUs")
                /\ pc' = "send_emails"
                /\ UNCHANGED <<rates, real_interval, transport, cycle>>
    /\ UNCHANGED <<options, rates_none, since_check, device_names, failure,
                   always_idle, scen, seed_sum>>

\* "send emails": smtp_connect
SendEmailsQ(q, out) ==
    /\ pc = "send_emails"
    /\ \E smtp \in SmtpOutcomes :
        IF smtp = "ok"
        THEN /\ out = verbose(q, verbose(q, console, "Sending alarm email..."), "Connected")
             /\ pc' = "sendmail"
             /\ failure' = failure
        ELSE /\ out = verbose(q, console, "Sending alarm email...")
             /\ Raise("smtp_dispatch")
    /\ UNCHANGED <<options, rates, rates_none, since_check, real_interval,
                   idle_durations, device_names, idle_gpus, transport, cycle,
                   history>>

\* the message is composed and handed to sendmail
SendMailQ(q, out) ==
    /\ pc = "sendmail"
    /\ mail' = mail_lines(idle_gpus, rates, device_names)
    /\ sent' = sent + 1
    /\ out = console
    /\ \E smtp \in SmtpOutcomes :
        IF smtp = "ok"
        THEN pc' = "quit" /\ failure' = failure
        ELSE Raise("smtp_dispatch")
    /\ UNCHANGED <<options, rates, rates_none, since_check, real_interval,
                   idle_durations, device_names, idle_gpus, cycle, history>>

\* connection.quit() and the last line of the iteration
QuitQ(q, out) ==
    /\ pc = "quit"
    /\ \E smtp \in SmtpOutcomes :
        IF smtp = "ok"
        THEN /\ out = verbose(q, console, "Email sent")
             /\ EndOfCycle("accumulate")
             /\ failure' = failure
        ELSE /\ out = console
             /\ Raise("smtp_dispatch")
             /\ UNCHANGED <<rates, real_interval, idle_gpus, transport, cycle>>
    /\ UNCHANGED <<options, rates_none, since_check, idle_durations, device_names,
                   history>>

\* KeyboardInterrupt, raised wherever the try block is
Interrupt ==
    /\ pc \notin {"terminated", "crashed"}
    /\ pc' = "terminated"
    /\ UNCHANGED <<options, rates, rates_none, since_check, real_interval,
                   idle_durations, device_names, idle_gpus, console, transport,
                   failure, cycle, history>>

Connect == ConnectQ(quiet_mode, console')
FirstSample == FirstSampleQ(quiet_mode, console')
Poll == PollQ(quiet_mode, console')
UpdateTimers == UpdateTimersQ(quiet_mode, console')
CheckDurations == CheckDurationsQ(quiet_mode, console')
SendEmails == SendEmailsQ(quiet_mode, console')
SendMail == SendMailQ(quiet_mode, console')
Quit == QuitQ(quiet_mode, console')

Next ==
    \/ Connect
    \/ FirstSample
    \/ Poll
    \/ UpdateTimers
    \/ CheckDurations
    \/ SendEmails
    \/ SendMail
    \/ Quit
    \/ Interrupt

Spec == Init /\ [][Next]_vars

\* the program's own steps: the interpreter keeps executing main
Run ==
    \/ Connect
    \/ FirstSample
    \/ Poll
    \/ UpdateTimers
    \/ CheckDurations
    \/ SendEmails
    \/ SendMail
    \/ Quit

\* the liveness check runs one configuration: devices 0 and 1, a positive duration
LiveInit == Init /\ duration = 1 /\ devices.ids = <<0, 1>> /\ quiet_mode

LiveSpec == LiveInit /\ [][Next]_vars /\ WF_vars(Run)

\* the comparison of the two values of --quiet runs devices 0 and 1
QuietInit == Init /\ devices.ids = <<0, 1>>

QuietSpec == QuietInit /\ [][Next]_vars

\* a step of main printing under the quiet flag q
StepQ(q, out) ==
    \/ ConnectQ(q, out)
    \/ FirstSampleQ(q, out)
    \/ PollQ(q, out)
    \/ UpdateTimersQ(q, out)
    \/ CheckDurationsQ(q, out)
    \/ SendEmailsQ(q, out)
    \/ SendMailQ(q, out)
    \/ QuitQ(q, out)

(* ------------------------------- claims -------------------------------- *)

Positions == 1..Len(idle_durations)

ThresholdSeconds == duration * 60

\* C1: in a poll with unchanged topology the timers come into the accumulation
\* step as the previous cycle left them, and right after it position i is 0
\* if utilization[i] >= threshold (equality included) and otherwise its
\* previous value plus round(elapsed).
C1_Accumulation ==
    [][/\ (pc = "sleep" /\ pc' = "update_timers")
            => idle_durations' = idle_durations
       /\ (pc = "update_timers" /\ pc' = "check_durations")
            => /\ Len(idle_durations') = Len(rates)
               /\ \A i \in 1..Len(rates) :
                    idle_durations'[i] =
                        IF rates[i].util >= threshold THEN 0
                        ELSE idle_durations[i] + Round(real_interval)]_vars

C1_Witness ==
    /\ pc = "check_durations"
    /\ Len(rates) = 2
    /\ rates[1].util = threshold /\ idle_durations[1] = 0
    /\ rates[2].util < threshold /\ idle_durations[2] = 30
    /\ real_interval = 21

\* C2: a snapshot that differs from the recorded names in length or at some
\* position never reaches the accumulation; the poll that finds it ends the
\* cycle with one timer per recorded device, all 0, and with no message
\* handed to the transport, whatever the utilizations and the timers were.
C2_TopologyReset ==
    [][pc = "sleep"
            => /\ pc' = "update_timers" => NamesOf(rates') = device_names
               /\ pc' = "sleep"
                    => /\ device_names' # device_names
                       /\ idle_durations' = [k \in 1..Len(device_names') |-> 0]
                       /\ sent' = 0
                       /\ mail' = <<>>]_vars

C2_Witness ==
    /\ pc = "sleep"
    /\ cycle = "reset"
    /\ idle_durations = <<0>>
    /\ Len(device_names) = 1

\* C3: in a poll with unchanged topology the message handed to the transport
\* lists exactly the positions whose timer is >= duration*60 after the
\* accumulation; one message when there is such a position, none otherwise.
C3_AlertSet ==
    [][/\ pc = "check_durations"
            => LET Q == {i \in Positions : idle_durations[i] >= ThresholdSeconds}
               IN  \/ pc' = "terminated"
                   \/ Q = {} /\ pc' = "sleep"
                   \/ Q # {} /\ pc' = "send_emails"
                        /\ Elems(idle_gpus') = Q /\ Len(idle_gpus') = Cardinality(Q)
       /\ pc = "send_emails" => idle_gpus' = idle_gpus
       /\ (pc = "sendmail" /\ pc' # "terminated")
            => /\ Len(mail') = Len(idle_gpus)
               /\ Elems(mail') = {<<rates[i].index, device_names[i]>> :
                                      i \in Elems(idle_gpus)}
       /\ pc \in {"sleep", "update_timers", "check_durations", "send_emails"}
            => sent' = 0
       /\ pc = "sendmail" => sent' = IF pc' = "terminated" THEN 0 ELSE 1
       /\ pc = "quit" => sent = 1 /\ sent' = IF pc' = "sleep" THEN 0 ELSE 1]_vars

C3_Witness ==
    /\ pc = "quit"
    /\ sent = 1
    /\ duration = 1
    /\ Len(device_names) = 2
    /\ mail = <<(<<1, device_names[2]>>)>>

\* C4: a device below the threshold at every poll since seeding is listed in
\* an alert only when the round(elapsed) of the polls since seeding or since
\* its previous alert add up to at least duration*60.  With interval 10 s,
\* threshold 20, duration 1 minute and 5 % at polls exactly 10 s apart, the
\* timer after the accumulation of polls 1..7 is 10,20,30,40,50,60,10 and the
\* only alert is at poll 6.
C4_OncePerWindow ==
    [][/\ (pc = "check_durations" /\ pc' = "send_emails")
            => \A k \in 1..Len(idle_gpus') :
                    always_idle[idle_gpus'[k]] => window[idle_gpus'[k]] >= ThresholdSeconds
       /\ (pc = "check_durations" /\ scen >= 1)
            => /\ idle_durations = <<10 * (((scen - 1) % 6) + 1)>>
               /\ pc' # "terminated" => ((pc' = "send_emails") <=> (scen % 6 = 0))
               /\ pc' = "send_emails" => idle_durations' = <<0>>]_vars

C4_Witness ==
    /\ pc = "check_durations"
    /\ scen = 7
    /\ idle_durations = <<10>>

\* C5: a failure of the transport during dispatch does not end the poll loop.
C5_DispatchFailureNotFatal == failure = "smtp_dispatch" => pc # "crashed"

\* C6: the sampler returns a list, never an error or a non-list value, and
\* the loop keeps running when the enumeration fails.
C6_SamplerAlwaysList == ~rates_none /\ failure \notin {"TypeError", "NVMLError"}

\* C7: if the topology never changes after the first sample, the device at
\* position 1 is below the threshold at every poll, every poll's
\* round(elapsed) is at least 1, and the run neither fails nor is interrupted,
\* then again and again an alert listing that device is handed over.
C7_Environment ==
    /\ pc \notin {"crashed", "terminated"}
    /\ cycle # "reset"
    /\ cycle # "none" => Len(device_names) >= 1
    /\ pc = "update_timers"
            => rates[1].util < threshold /\ Round(real_interval) >= 1

C7_Alerted ==
    /\ pc = "quit"
    /\ sent = 1
    /\ \E k \in 1..Len(mail) : mail[k] = <<rates[1].index, device_names[1]>>

C7_EventuallyAlerts == ([]C7_Environment) => []<>C7_Alerted

C7_Witness ==
    /\ C7_Alerted
    /\ cycle = "accumulate"
    /\ Len(device_names) = 2

\* C8: whatever step the program takes under its quiet flag, the program with
\* the flag the other way round takes the same step from the same state, to
\* the same timers, names, position and transport log; only the console
\* differs (a quiet step leaves the console as it is, a loud one leaves one
\* of the messages).
C8_QuietOnlyOutput ==
    [][\/ Interrupt
       \/ \E out \in (IF quiet_mode THEN Messages ELSE {console}) :
                StepQ(~quiet_mode, out)]_vars

C8_Witness ==
    /\ quiet_mode
    /\ pc = "quit"
    /\ sent = 1
    /\ duration = 1
    /\ console = ""

\* C9: there are as many timers as recorded names, and from the accumulation
\* step to the end of the cycle as many as devices in the snapshot, so every
\* position used is in range.
C9_Lengths ==
    /\ Len(idle_durations) = Len(device_names)
    /\ pc \in {"update_timers", "check_durations", "send_emails", "sendmail", "quit"}
            => ~rates_none /\ Len(rates) = Len(idle_durations)
    /\ pc \in {"send_emails", "sendmail", "quit"} => Elems(idle_gpus) \subseteq Positions

C9_Witness ==
    /\ pc = "update_timers"
    /\ cycle = "reset"
    /\ Len(rates) = 2
    /\ Len(idle_durations) = 2

\* C10: every timer is a non-negative integer.
C10_NonNegative == \A i \in Positions : idle_durations[i] \in Nat

\* C11: from the moment the transport is first contacted in a cycle until the
\* cycle ends, however it ends (mail handed over, transport failure,
\* interrupt), the timer of every listed position is 0, and so with a
\* positive duration below duration*60; the transport has seen nothing of
\* the cycle before the timers are reset.
C11_ResetBeforeDispatch ==
    /\ \A k \in 1..Len(idle_gpus) :
            /\ idle_durations[idle_gpus[k]] = 0
            /\ duration > 0 => idle_durations[idle_gpus[k]] < ThresholdSeconds
    /\ pc \in {"send_emails", "sendmail", "quit"} => idle_gpus # <<>>
    /\ pc \in {"update_timers", "check_durations", "send_emails"}
            => sent = 0 /\ mail = <<>>

C11_Witness ==
    /\ pc = "crashed"
    /\ failure = "smtp_dispatch"
    /\ duration = 1
    /\ sent = 0
    /\ idle_gpus = <<2>>
    /\ idle_durations = <<30, 0>>

\* C12: the step that evaluates the timers leaves every timer below
\* duration*60 as the accumulation left it and leaves the recorded names
\* alone; when no timer qualifies it ends the cycle with the timers, the
\* names, the recorded time point, the console and the transport untouched;
\* the dispatch that follows an evaluation writes neither timers nor names.
C12_TriggerFrame ==
    [][/\ pc = "check_durations"
            => /\ device_names' = device_names
               /\ Len(idle_durations') = Len(idle_durations)
               /\ \A i \in Positions :
                    idle_durations[i] < ThresholdSeconds
                        => idle_durations'[i] = idle_durations[i]
               /\ (\A i \in Positions : idle_durations[i] < ThresholdSeconds)
                    => /\ pc' \in {"sleep", "terminated"}
                       /\ UNCHANGED <<options, idle_durations, since_check,
                                      console, transport, failure>>
       /\ pc \in {"send_emails", "sendmail", "quit"}
            => UNCHANGED <<idle_durations, device_names, options>>]_vars

C12_Witness ==
    /\ pc = "quit"
    /\ sent = 1
    /\ duration = 1
    /\ idle_gpus = <<1>>
    /\ idle_durations = <<0, 30>>
    /\ device_names = <<"A", "B">>

\* for every length, the ways of giving the positions distinct device indexes
Indexings ==
    [n \in 0..MaxCount |->
        {ix \in [1..n -> 0..(MaxCount - 1)] :
            \A j, k \in 1..n : ix[j] = ix[k] => j = k}]

\* the snapshots that agree with rts in length, names and utilizations and
\* carry other device indexes
Relabelled(rts) ==
    {[k \in 1..Len(rts) |->
        [index |-> ix[k], name |-> rts[k].name, util |-> rts[k].util]] :
     ix \in Indexings[Len(rts)]}

\* C13: a poll resets the history only when the length or a positional name
\* of the snapshot differs from the recorded names; a snapshot with the
\* recorded names goes on to the accumulation with the timers kept, and so
\* would the same snapshot under any other device indexes (two same-named
\* devices swapped included), with the same timers by position afterwards.
C13_NamesOnly ==
    [][/\ (pc = "sleep" /\ pc' = "sleep") => device_names' # device_names
       /\ (pc = "sleep" /\ pc' = "update_timers")
            => /\ idle_durations' = idle_durations
               /\ device_names' = device_names
               /\ \A r \in Relabelled(rates') : ~device_changed(device_names, r)
       /\ (pc = "update_timers" /\ pc' = "check_durations")
            => \A r \in Relabelled(rates) :
                    idle_durations' = update_timers(idle_durations, r, threshold,
                                                    real_interval)]_vars

C13_Witness ==
    /\ pc = "check_durations"
    /\ cycle = "accumulate"
    /\ device_names = <<"A", "A">>
    /\ idle_durations = <<40, 10>>
    /\ <<rates[1].index, rates[2].index>> = <<0, 1>>
    /\ \E r \in Relabelled(rates) : <<r[1].index, r[2].index>> = <<1, 0>>

\* C14: no timer exceeds the sum of round(elapsed) of the polls accumulated
\* since the last seeding (the first sample or a topology reset).
C14_TimerWithinElapsed ==
    seed_sum.polls >= 0 => \A i \in Positions : idle_durations[i] <= seed_sum.sum

\* C15: the time point is recorded with the first sample, so the elapsed time
\* of the first poll after it is the sleep and the sampling of that poll,
\* without the connection test that came before the first sample.
C15_InitTimestamp ==
    /\ (pc = "sleep" /\ cycle = "seed") => since_check = 0
    /\ (pc = "update_timers" /\ cycle = "seed")
            => real_interval \in {2 * interval + j + c : j \in Jitter, c \in ClockSteps}

\* C16: the loop is left on an interrupt only from the sleep (or from the
\* startup before the first cycle), never from the middle of a cycle.
C16_InterruptAtSleepOnly ==
    [][pc' = "terminated" => pc \in {"connect", "first", "sleep"}]_vars

\* C17: with a positive duration, whenever a cycle has ended (the first
\* sample, a topology reset, or accumulation and evaluation) every timer is
\* below duration*60.
C17_BelowThresholdAtCycleEnd ==
    (duration > 0 /\ pc = "sleep")
        => \A i \in Positions : idle_durations[i] < ThresholdSeconds

C17_Witness ==
    /\ pc = "sleep"
    /\ cycle = "accumulate"
    /\ duration = 1
    /\ idle_durations = <<50, 0>>

\* C18: with a positive duration, every position found idle has a
\* utilization below the threshold in this poll and at every poll since its
\* timer was last assigned 0, and every line of the mail is the line of such
\* a position.
C18_ListedAreIdle ==
    [][duration > 0
        => /\ (pc = "check_durations" /\ pc' = "send_emails")
                => \A k \in 1..Len(idle_gpus') :
                        /\ rates[idle_gpus'[k]].util < threshold
                        /\ idle_since_zero[idle_gpus'[k]]
           /\ (pc = "sendmail" /\ sent' = 1)
                => \A k \in 1..Len(mail') :
                        \E i \in Positions :
                            /\ mail'[k] = <<rates[i].index, device_names[i]>>
                            /\ rates[i].util < threshold
                            /\ idle_since_zero[i]]_vars

C18_Witness ==
    /\ pc = "quit"
    /\ sent = 1
    /\ duration = 1
    /\ Len(rates) = 2
    /\ rates[1].util >= threshold
    /\ mail = <<(<<rates[2].index, device_names[2]>>)>>

=============================================================================
